---- MODULE Spec2Model ----
(***************************************************************************)
(* State-machine model of the Dashboard component.                         *)
(*                                                                         *)
(* Two variants of the component exist in the repository:                  *)
(*   "full"   src/unnamed/part_000             (poll timer, door status)   *)
(*   "simple" src/src/components/Dashboard.tsx (one fetch on mount)        *)
(*                                                                         *)
(* Conventions                                                             *)
(*   - instants are integers in milliseconds, counted from the instant of  *)
(*     mount (the code reads only differences of instants, apart from the  *)
(*     display label);                                                     *)
(*   - temperature and humidity are integers in hundredths of a unit;      *)
(*   - a JS string that the code builds is a sequence of one-character     *)
(*     strings; an absent JSON field is <<>>, a present one <<v>>;         *)
(*   - a Date is its time value <<t>>, the Invalid Date is <<>> (NaN).     *)
(***************************************************************************)
EXTENDS Integers, Sequences, FiniteSets, TLC

VARIABLES
    variant,       \* which of the two source files is running
    phase,         \* "init" (constructed), "mounted", "unmounted"
    now,           \* the wall clock, new Date().getTime()
    interval,      \* the poll timer: <<>> when not set, <<t>> when it fires next at t
    inflight,      \* ids of the fetchData calls awaiting their response
    nextId,        \* id given to the next fetchData call
    data,          \* useState data
    filteredData,  \* useState filteredData
    loading,       \* useState loading
    error,         \* useState error
    timeRange,     \* useState timeRange
    doorStatus,    \* useState doorStatus (full variant)
    filterPending, \* the [data, timeRange] effect is scheduled and has not run
    filterNow,     \* the value of `now` read by the last run of filterData
    lastResponse,  \* outcome of the fetchData call that completed last
    newest,        \* history kept by PollSpec: the id and the result of the call
                   \* started last among the calls that succeeded
    darkMode,      \* useState darkMode
    displayType,   \* useState displayType
    currentView,   \* useState currentView (full variant)
    tableDataType  \* useState tableDataType (full variant)

vars == <<variant, phase, now, interval, inflight, nextId, data, filteredData,
          loading, error, timeRange, doorStatus, filterPending, filterNow,
          lastResponse, newest, darkMode, displayType, currentView, tableDataType>>

viewVars == <<darkMode, displayType, currentView, tableDataType>>

-----------------------------------------------------------------------------
(* Bounds of the model *)

\* longest JSON array a response carries
MaxLen == 2

\* number of timer periods the clock may advance after mount
MaxTicks == 1

-----------------------------------------------------------------------------
(* Values *)

Variants == {"full", "simple"}

TimeRanges == {"1hour", "6hours", "24hours", "7days", "all"}

DisplayTypes == {"both", "temperature", "humidity"}

Views == {"dashboard", "devices", "table"}

TableDataTypes == {"temperature", "image"}

\* the initial value of error
Null == "null"

\* the literal passed to setError (a fixed Japanese sentence in the source)
ErrorMessage == "fetch failed"

Absent == <<>>

InvalidDate == <<>>

\* setInterval period, in ms
Interval == 5000

OneHour == 60 * 60 * 1000

Last(s) == s[Len(s)]

SeqsUpTo(S, n) == UNION {[1..k -> S] : k \in 0..n}

\* the JSON records the endpoint may return
RawItems ==
    { [time |-> <<0>>, temperature |-> <<2000>>, humidity |-> <<5000>>,
       doorStatus |-> Absent, imageData |-> Absent],
      [time |-> <<-OneHour>>, temperature |-> Absent, humidity |-> <<4575>>,
       doorStatus |-> <<"open">>, imageData |-> <<[reading |-> 7]>>],
      [time |-> Absent, temperature |-> <<-25>>, humidity |-> Absent,
       doorStatus |-> <<"closed">>, imageData |-> Absent] }

\* the JSON value null as an element of the array
JsonNull == [null |-> TRUE]

Responses == SeqsUpTo(RawItems, MaxLen)

-----------------------------------------------------------------------------
(* Strings *)

DigitChar(d) == <<"0", "1", "2", "3", "4", "5", "6", "7", "8", "9">>[d + 1]

RECURSIVE NatChars(_)
\* String(n) for a natural number n
NatChars(n) == IF n < 10 THEN <<DigitChar(n)>>
               ELSE NatChars(n \div 10) \o <<DigitChar(n % 10)>>

\* s.padStart(2, '0')
PadStart2(s) == IF Len(s) >= 2 THEN s ELSE IF Len(s) = 1 THEN <<"0">> \o s ELSE <<"0", "0">>

NaNChars == <<"N", "a", "N">>

\* Number.prototype.toFixed(1) of x hundredths: the nearest number of tenths,
\* the larger one on a tie, the sign taken from x
ToFixed1(x) ==
    LET a == IF x < 0 THEN -x ELSE x
        n == (a + 5) \div 10
    IN  (IF x < 0 THEN <<"-">> ELSE <<>>) \o NatChars(n \div 10) \o <<".">> \o <<DigitChar(n % 10)>>

-----------------------------------------------------------------------------
(* fetchData: normalization of one JSON record *)

\* new Date(item.time)
NewDate(time) == IF time = Absent THEN InvalidDate ELSE time

\* `${getMonth() + 1}/${getDate()} ${getHours()}:${String(getMinutes()).padStart(2, '0')}`
\* with instant 0 read as 8 January, 00:00 local time
FormatTime(date) ==
    IF date = InvalidDate
    THEN NaNChars \o <<"/">> \o NaNChars \o <<" ">> \o NaNChars \o <<":">> \o NaNChars
    ELSE LET t == date[1]
         IN  NatChars(0 + 1) \o <<"/">> \o NatChars(8 + (t \div (24 * OneHour)))
             \o <<" ">> \o NatChars((t \div OneHour) % 24)
             \o <<":">> \o PadStart2(NatChars((t \div (60 * 1000)) % 60))

\* x || 0
OrZero(x) == IF x = Absent \/ x = <<0>> THEN 0 ELSE x[1]

\* x || dflt
OrDefault(x, dflt) == IF x = Absent THEN dflt ELSE x[1]

FormatItemFull(item) ==
    LET date == NewDate(item.time)
    IN  [timestamp    |-> FormatTime(date),
         temperature  |-> OrZero(item.temperature),
         humidity     |-> OrZero(item.humidity),
         originalDate |-> date,
         doorStatus   |-> OrDefault(item.doorStatus, "closed"),
         imageData    |-> OrDefault(item.imageData, [reading |-> 0])]

FormatItemSimple(item) ==
    LET date == NewDate(item.time)
    IN  [timestamp    |-> FormatTime(date),
         temperature  |-> OrZero(item.temperature),
         humidity     |-> OrZero(item.humidity),
         originalDate |-> date]

\* a variant whose callback rejects a record that lacks a field
ItemThrowsOnMissingField(item) ==
    IF item = JsonNull THEN TRUE
    ELSE \E f \in {"time", "temperature", "humidity", "doorStatus", "imageData"} :
             item[f] = Absent

\* the callback reads properties of item: the read throws a TypeError when
\* item is null, and yields undefined when item is a record without the field
ItemThrows(item) == item = JsonNull

\* json.map(...) throws, and fetchData continues in its catch branch
MapThrows(json) == \E i \in 1..Len(json) : ItemThrows(json[i])

\* json.map(item => ...)
FormattedData(json, v) ==
    [i \in 1..Len(json) |->
        IF v = "full" THEN FormatItemFull(json[i]) ELSE FormatItemSimple(json[i])]

-----------------------------------------------------------------------------
(* filterData *)

\* a variant with a factor of 60 missing in the 6-hour case
WindowMsShortSixHours(tag) ==
    CASE tag = "1hour"   -> 60 * 60 * 1000
      [] tag = "6hours"  -> 6 * 60 * 1000
      [] tag = "24hours" -> 24 * 60 * 60 * 1000
      [] tag = "7days"   -> 7 * 24 * 60 * 60 * 1000

\* the bound of the switch case of a window tag
WindowMs(tag) ==
    CASE tag = "1hour"   -> 60 * 60 * 1000
      [] tag = "6hours"  -> 6 * 60 * 60 * 1000
      [] tag = "24hours" -> 24 * 60 * 60 * 1000
      [] tag = "7days"   -> 7 * 24 * 60 * 60 * 1000

\* a variant that compares with < instead of <=
KeepItemStrict(item, tag, t) ==
    IF tag \in {"1hour", "6hours", "24hours", "7days"}
    THEN /\ item.originalDate # InvalidDate
         /\ t - item.originalDate[1] < WindowMs(tag)
    ELSE TRUE

\* a variant whose default case drops the readings with an invalid date
KeepItemValidOnly(item, tag, t) ==
    /\ item.originalDate # InvalidDate
    /\ tag \in {"1hour", "6hours", "24hours", "7days"}
          => t - item.originalDate[1] <= WindowMs(tag)

\* a variant with the comparison reversed: it keeps the readings older than
\* the window
KeepItemReversed(item, tag, t) ==
    IF tag \in {"1hour", "6hours", "24hours", "7days"}
    THEN /\ item.originalDate # InvalidDate
         /\ t - item.originalDate[1] >= WindowMs(tag)
    ELSE TRUE

\* the callback of data.filter: a comparison with NaN is false
KeepItem(item, tag, t) ==
    IF tag \in {"1hour", "6hours", "24hours", "7days"}
    THEN /\ item.originalDate # InvalidDate
         /\ t - item.originalDate[1] <= WindowMs(tag)
    ELSE TRUE

RECURSIVE FilterData(_, _, _)
\* data.filter(...) with `now` = t
FilterData(d, tag, t) ==
    IF d = <<>> THEN <<>>
    ELSE IF KeepItem(Head(d), tag, t)
         THEN <<Head(d)>> \o FilterData(Tail(d), tag, t)
         ELSE FilterData(Tail(d), tag, t)

-----------------------------------------------------------------------------
(* getLatestReadings *)

Placeholder == [temp |-> <<"-", "-">>, humid |-> <<"-", "-">>]

LatestOf(fd) ==
    IF Len(fd) = 0 THEN Placeholder
    ELSE LET latest == fd[Len(fd)]
         IN  [temp  |-> ToFixed1(latest.temperature),
              humid |-> ToFixed1(latest.humidity)]

\* a variant that reads the full sequence instead of the filtered one
GetLatestReadingsOfData == LatestOf(data)

\* const { temp, humid } = getLatestReadings()
GetLatestReadings == LatestOf(filteredData)

-----------------------------------------------------------------------------
(* The component *)

NoResponse == [kind |-> "none", json |-> <<>>]

Init ==
    /\ variant \in Variants
    /\ phase = "init"
    /\ now = 0
    /\ interval = <<>>
    /\ inflight = {}
    /\ nextId = 1
    /\ data = <<>>
    /\ filteredData = <<>>
    /\ loading = TRUE
    /\ error = Null
    /\ timeRange = "24hours"
    /\ doorStatus = "closed"
    /\ filterPending = FALSE
    /\ filterNow = 0
    /\ lastResponse = NoResponse
    /\ newest = [id |-> 0, data |-> <<>>]
    /\ darkMode = FALSE
    /\ displayType = "both"
    /\ currentView = "dashboard"
    /\ tableDataType = "temperature"

\* the runtime runs the effects of a commit before it handles the next event
EffectsFlushed == ~(phase = "mounted" /\ filterPending)

\* history of the calls that succeeded: the call id has stored the result d
NewestAfter(id, d) ==
    IF id > newest.id THEN [id |-> id, data |-> d] ELSE newest

\* the call fetchData(), up to its first await
StartFetch ==
    /\ inflight' = inflight \cup {nextId}
    /\ nextId' = nextId + 1

\* first commit: the mount effect calls fetchData and (full variant) sets the
\* timer; the [data, timeRange] effect runs filterData on the initial state
Mount ==
    /\ phase = "init"
    /\ phase' = "mounted"
    /\ StartFetch
    /\ interval' = IF variant = "full" THEN <<now + Interval>> ELSE <<>>
    /\ filteredData' = FilterData(data, timeRange, now)
    /\ filterNow' = now
    /\ filterPending' = FALSE
    /\ UNCHANGED <<variant, now, data, loading, error, timeRange, doorStatus, lastResponse>>
    /\ UNCHANGED <<newest, viewVars>>

\* the timer callback: fetchData, every Interval ms
TimerTick ==
    /\ EffectsFlushed
    /\ interval # <<>>
    /\ now = interval[1]
    /\ StartFetch
    /\ interval' = <<interval[1] + Interval>>
    /\ UNCHANGED <<variant, phase, now, data, filteredData, loading, error, timeRange,
                   doorStatus, filterPending, filterNow, lastResponse>>
    /\ UNCHANGED <<newest, viewVars>>

\* a variant that treats an empty array as a failure
FetchSucceedEmptyFails(id, json) ==
    /\ EffectsFlushed
    /\ id \in inflight
    /\ ~MapThrows(json)
    /\ inflight' = inflight \ {id}
    /\ data' = FormattedData(json, variant)
    /\ doorStatus' = IF variant = "full" /\ Len(json) > 0
                     THEN Last(FormattedData(json, variant)).doorStatus
                     ELSE doorStatus
    /\ error' = IF Len(json) = 0 THEN ErrorMessage ELSE error
    /\ loading' = FALSE
    /\ filterPending' = TRUE
    /\ lastResponse' = [kind |-> "ok", json |-> json]
    /\ UNCHANGED <<variant, phase, now, interval, nextId, filteredData, timeRange, filterNow>>
    /\ UNCHANGED <<newest, viewVars>>

\* a variant that appends the response to the sequence held
FetchSucceedAppends(id, json) ==
    /\ EffectsFlushed
    /\ id \in inflight
    /\ ~MapThrows(json)
    /\ inflight' = inflight \ {id}
    /\ data' = data \o FormattedData(json, variant)
    /\ doorStatus' = IF variant = "full" /\ Len(json) > 0
                     THEN Last(FormattedData(json, variant)).doorStatus
                     ELSE doorStatus
    /\ loading' = FALSE
    /\ filterPending' = TRUE
    /\ lastResponse' = [kind |-> "ok", json |-> json]
    /\ UNCHANGED <<variant, phase, now, interval, nextId, filteredData, error, timeRange,
                   filterNow>>
    /\ UNCHANGED <<newest, viewVars>>

\* a variant whose try branch resets the error
FetchSucceedClearsError(id, json) ==
    /\ EffectsFlushed
    /\ id \in inflight
    /\ ~MapThrows(json)
    /\ inflight' = inflight \ {id}
    /\ data' = FormattedData(json, variant)
    /\ doorStatus' = IF variant = "full" /\ Len(json) > 0
                     THEN Last(FormattedData(json, variant)).doorStatus
                     ELSE doorStatus
    /\ error' = Null
    /\ loading' = FALSE
    /\ filterPending' = TRUE
    /\ lastResponse' = [kind |-> "ok", json |-> json]
    /\ UNCHANGED <<variant, phase, now, interval, nextId, filteredData, timeRange, filterNow>>
    /\ UNCHANGED <<newest, viewVars>>

\* a variant that reads the door status of the first record
FetchSucceedDoorOfFirst(id, json) ==
    /\ EffectsFlushed
    /\ id \in inflight
    /\ ~MapThrows(json)
    /\ inflight' = inflight \ {id}
    /\ data' = FormattedData(json, variant)
    /\ doorStatus' = IF variant = "full" /\ Len(json) > 0
                     THEN FormattedData(json, variant)[1].doorStatus
                     ELSE doorStatus
    /\ loading' = FALSE
    /\ filterPending' = TRUE
    /\ lastResponse' = [kind |-> "ok", json |-> json]
    /\ UNCHANGED <<variant, phase, now, interval, nextId, filteredData, error, timeRange,
                   filterNow>>
    /\ UNCHANGED <<newest, viewVars>>

\* the try branch of fetchData after both awaits resolved with `json`
FetchSucceed(id, json) ==
    /\ EffectsFlushed
    /\ id \in inflight
    /\ ~MapThrows(json)
    /\ inflight' = inflight \ {id}
    /\ data' = FormattedData(json, variant)
    /\ doorStatus' = IF variant = "full" /\ Len(json) > 0
                     THEN Last(FormattedData(json, variant)).doorStatus
                     ELSE doorStatus
    /\ loading' = FALSE
    /\ filterPending' = TRUE
    /\ lastResponse' = [kind |-> "ok", json |-> json]
    /\ UNCHANGED <<variant, phase, now, interval, nextId, filteredData, error, timeRange,
                   filterNow>>
    /\ UNCHANGED <<newest, viewVars>>

\* FetchSucceed, with the history of the calls recorded
FetchSucceedTracked(id, json) ==
    /\ EffectsFlushed
    /\ id \in inflight
    /\ ~MapThrows(json)
    /\ inflight' = inflight \ {id}
    /\ data' = FormattedData(json, variant)
    /\ doorStatus' = IF variant = "full" /\ Len(json) > 0
                     THEN Last(FormattedData(json, variant)).doorStatus
                     ELSE doorStatus
    /\ loading' = FALSE
    /\ filterPending' = TRUE
    /\ lastResponse' = [kind |-> "ok", json |-> json]
    /\ newest' = NewestAfter(id, FormattedData(json, variant))
    /\ UNCHANGED <<variant, phase, now, interval, nextId, filteredData, error, timeRange,
                   filterNow>>
    /\ UNCHANGED viewVars

\* a variant whose catch branch also clears the sequence
FetchFailClears(id) ==
    /\ EffectsFlushed
    /\ id \in inflight
    /\ inflight' = inflight \ {id}
    /\ error' = ErrorMessage
    /\ loading' = FALSE
    /\ data' = <<>>
    /\ filterPending' = TRUE
    /\ lastResponse' = [kind |-> "fail", json |-> <<>>]
    /\ UNCHANGED <<variant, phase, now, interval, nextId, filteredData, timeRange,
                   doorStatus, filterNow>>
    /\ UNCHANGED <<newest, viewVars>>

\* a variant whose catch branch leaves the spinner on
FetchFailKeepsLoading(id) ==
    /\ EffectsFlushed
    /\ id \in inflight
    /\ inflight' = inflight \ {id}
    /\ error' = ErrorMessage
    /\ lastResponse' = [kind |-> "fail", json |-> <<>>]
    /\ UNCHANGED <<variant, phase, now, interval, nextId, data, filteredData, timeRange,
                   doorStatus, filterPending, filterNow, loading>>
    /\ UNCHANGED <<newest, viewVars>>

\* the catch branch of fetchData: fetch or response.json() rejected, or
\* json.map threw
FetchFail(id) ==
    /\ EffectsFlushed
    /\ id \in inflight
    /\ inflight' = inflight \ {id}
    /\ error' = ErrorMessage
    /\ loading' = FALSE
    /\ lastResponse' = [kind |-> "fail", json |-> <<>>]
    /\ UNCHANGED <<variant, phase, now, interval, nextId, data, filteredData, timeRange,
                   doorStatus, filterPending, filterNow>>
    /\ UNCHANGED <<newest, viewVars>>

\* the [data, timeRange] effect: filterData()
RunFilterEffect ==
    /\ phase = "mounted"
    /\ filterPending
    /\ filteredData' = FilterData(data, timeRange, now)
    /\ filterNow' = now
    /\ filterPending' = FALSE
    /\ UNCHANGED <<variant, phase, now, interval, inflight, nextId, data, loading, error,
                   timeRange, doorStatus, lastResponse>>
    /\ UNCHANGED <<newest, viewVars>>

\* a variant whose filter effect depends on [data] alone
SelectTimeRangeNoEffect(t) ==
    /\ EffectsFlushed
    /\ phase = "mounted"
    /\ variant = "full" => currentView = "dashboard"
    /\ t # timeRange
    /\ timeRange' = t
    /\ UNCHANGED <<variant, phase, now, interval, inflight, nextId, data, filteredData,
                   loading, error, doorStatus, filterPending, filterNow, lastResponse>>
    /\ UNCHANGED <<newest, viewVars>>

\* onChange of the window select: setTimeRange(t)
SelectTimeRange(t) ==
    /\ EffectsFlushed
    /\ phase = "mounted"
    /\ variant = "full" => currentView = "dashboard"
    /\ t # timeRange
    /\ timeRange' = t
    /\ filterPending' = TRUE
    /\ UNCHANGED <<variant, phase, now, interval, inflight, nextId, data, filteredData,
                   loading, error, doorStatus, filterNow, lastResponse>>
    /\ UNCHANGED <<newest, viewVars>>

\* a variant whose mount effect returns no cleanup
UnmountKeepsTimer ==
    /\ EffectsFlushed
    /\ phase = "mounted"
    /\ phase' = "unmounted"
    /\ UNCHANGED <<variant, now, interval, inflight, nextId, data, filteredData, loading,
                   error, timeRange, doorStatus, filterPending, filterNow, lastResponse>>
    /\ UNCHANGED <<newest, viewVars>>

\* teardown: the cleanup of the mount effect, clearInterval(interval)
Unmount ==
    /\ EffectsFlushed
    /\ phase = "mounted"
    /\ phase' = "unmounted"
    /\ interval' = <<>>
    /\ UNCHANGED <<variant, now, inflight, nextId, data, filteredData, loading, error,
                   timeRange, doorStatus, filterPending, filterNow, lastResponse>>
    /\ UNCHANGED <<newest, viewVars>>

\* time passes; a set timer fires when it is due
AdvanceTime ==
    /\ EffectsFlushed
    /\ phase # "init"
    /\ now + Interval <= MaxTicks * Interval
    /\ interval # <<>> => now + Interval <= interval[1]
    /\ now' = now + Interval
    /\ UNCHANGED <<variant, phase, interval, inflight, nextId, data, filteredData, loading,
                   error, timeRange, doorStatus, filterPending, filterNow, lastResponse>>
    /\ UNCHANGED <<newest, viewVars>>

\* onClick of the theme button: setDarkMode(!darkMode)
ToggleDarkMode ==
    /\ EffectsFlushed
    /\ phase = "mounted"
    /\ darkMode' = ~darkMode
    /\ UNCHANGED <<variant, phase, now, interval, inflight, nextId, data, filteredData,
                   loading, error, timeRange, doorStatus, filterPending, filterNow,
                   lastResponse, newest, displayType, currentView, tableDataType>>

\* onChange of the series select: setDisplayType(d)
SetDisplayType(d) ==
    /\ EffectsFlushed
    /\ phase = "mounted"
    /\ variant = "full" => currentView = "dashboard"
    /\ d # displayType
    /\ displayType' = d
    /\ UNCHANGED <<variant, phase, now, interval, inflight, nextId, data, filteredData,
                   loading, error, timeRange, doorStatus, filterPending, filterNow,
                   lastResponse, newest, darkMode, currentView, tableDataType>>

\* a variant whose filter effect has no dependency list: it runs after every render
SetCurrentViewRefilters(v) ==
    /\ EffectsFlushed
    /\ phase = "mounted"
    /\ variant = "full"
    /\ v # currentView
    /\ currentView' = v
    /\ filterPending' = TRUE
    /\ UNCHANGED <<variant, phase, now, interval, inflight, nextId, data, filteredData,
                   loading, error, timeRange, doorStatus, filterNow,
                   lastResponse, newest, darkMode, displayType, tableDataType>>

\* onClick of a menu button: setCurrentView(v)
SetCurrentView(v) ==
    /\ EffectsFlushed
    /\ phase = "mounted"
    /\ variant = "full"
    /\ v # currentView
    /\ currentView' = v
    /\ UNCHANGED <<variant, phase, now, interval, inflight, nextId, data, filteredData,
                   loading, error, timeRange, doorStatus, filterPending, filterNow,
                   lastResponse, newest, darkMode, displayType, tableDataType>>

\* onChange of the table select: setTableDataType(t)
SetTableDataType(t) ==
    /\ EffectsFlushed
    /\ phase = "mounted"
    /\ variant = "full"
    /\ currentView = "table"
    /\ t # tableDataType
    /\ tableDataType' = t
    /\ UNCHANGED <<variant, phase, now, interval, inflight, nextId, data, filteredData,
                   loading, error, timeRange, doorStatus, filterPending, filterNow,
                   lastResponse, newest, darkMode, displayType, currentView>>

-----------------------------------------------------------------------------
(* Render: what the chart region and the table region show *)

\* a variant that shows the content whenever there is something to show
ChartRegionDataFirst ==
    IF variant = "full" /\ currentView # "dashboard" THEN "hidden"
    ELSE IF loading THEN "spinner"
    ELSE IF error # Null /\ Len(filteredData) = 0 THEN "error"
    ELSE "content"

\* {loading ? spinner : error ? message : chart}
ChartRegion ==
    IF variant = "full" /\ currentView # "dashboard" THEN "hidden"
    ELSE IF loading THEN "spinner"
    ELSE IF error # Null THEN "error"
    ELSE "content"

\* {loading ? spinner : error ? message : table}
TableRegion ==
    IF variant = "full" /\ currentView # "table" THEN "hidden"
    ELSE IF loading THEN "spinner"
    ELSE IF error # Null THEN "error"
    ELSE "content"

-----------------------------------------------------------------------------

Next ==
    \/ Mount
    \/ TimerTick
    \/ \E id \in inflight : \E json \in Responses : FetchSucceed(id, json)
    \/ \E id \in inflight : FetchFail(id)
    \/ RunFilterEffect
    \/ \E t \in TimeRanges : SelectTimeRange(t)
    \/ Unmount
    \/ AdvanceTime

Spec == Init /\ [][Next]_vars

-----------------------------------------------------------------------------
(* The component with its view controls; responses of at most one record *)

ViewResponses == SeqsUpTo(RawItems \cup {JsonNull}, 1)

ViewNext ==
    \/ Mount
    \/ TimerTick
    \/ \E id \in inflight : \E json \in ViewResponses : FetchSucceed(id, json)
    \/ \E id \in inflight : FetchFail(id)
    \/ RunFilterEffect
    \/ \E t \in TimeRanges : SelectTimeRange(t)
    \/ Unmount
    \/ AdvanceTime
    \/ ToggleDarkMode
    \/ \E d \in DisplayTypes : SetDisplayType(d)
    \/ \E v \in Views : SetCurrentView(v)
    \/ \E t \in TableDataTypes : SetTableDataType(t)

ViewSpec == Init /\ [][ViewNext]_vars

-----------------------------------------------------------------------------
(* The polling component with the start order of its fetches recorded;
   responses of at most one record *)

PollResponses == SeqsUpTo(RawItems, 1)

PollNext ==
    \/ Mount
    \/ TimerTick
    \/ \E id \in inflight : \E json \in PollResponses : FetchSucceedTracked(id, json)
    \/ \E id \in inflight : FetchFail(id)
    \/ RunFilterEffect
    \/ \E t \in TimeRanges : SelectTimeRange(t)
    \/ Unmount
    \/ AdvanceTime

PollSpec == Init /\ [][PollNext]_vars

\* a fetchData call in flight gets its response or its rejection
Settle ==
    \E id \in inflight :
        \/ \E json \in PollResponses : FetchSucceedTracked(id, json)
        \/ FetchFail(id)

\* the component is mounted, the runtime runs the effects that are due, and
\* every fetch that was started resolves or rejects
LiveSpec ==
    /\ PollSpec
    /\ WF_vars(Mount)
    /\ WF_vars(RunFilterEffect)
    /\ SF_vars(Settle)

-----------------------------------------------------------------------------
(* The filter and the summary on their own: the component holds an arbitrary *)
(* normalized sequence at an arbitrary instant, the effect is due            *)

ItemTimes == {0, -OneHour}

\* instants at, just inside and just outside every window of every reading,
\* an instant before every reading (-1 - OneHour) and the instant of mount
NowSamples ==
    {t + WindowMs(w) + d : t \in ItemTimes, w \in TimeRanges \ {"all"}, d \in {-1, 0, 1}}
        \cup {-1 - OneHour, 0}

FilterInit ==
    /\ variant \in Variants
    /\ phase = "mounted"
    /\ now \in NowSamples
    /\ interval = IF variant = "full" THEN <<now + Interval>> ELSE <<>>
    /\ inflight = {}
    /\ nextId = 2
    /\ \E json \in Responses :
          /\ data = FormattedData(json, variant)
          /\ lastResponse = [kind |-> "ok", json |-> json]
          /\ newest = [id |-> 1, data |-> <<>>]
          /\ doorStatus = IF variant = "full" /\ Len(json) > 0
                          THEN Last(FormattedData(json, variant)).doorStatus
                          ELSE "closed"
    /\ filteredData = <<>>
    /\ loading = FALSE
    /\ error = Null
    /\ timeRange \in TimeRanges
    /\ filterPending = TRUE
    /\ filterNow = 0
    /\ darkMode = FALSE
    /\ displayType = "both"
    /\ currentView = "dashboard"
    /\ tableDataType = "temperature"

FilterNext ==
    \/ RunFilterEffect
    \/ \E t \in TimeRanges : SelectTimeRange(t)

FilterSpec == FilterInit /\ [][FilterNext]_vars

-----------------------------------------------------------------------------
(* Vocabulary of the properties *)

\* the duration a window tag stands for, in hours
WindowHours(tag) ==
    CASE tag = "1hour" -> 1 [] tag = "6hours" -> 6 [] tag = "24hours" -> 24
      [] tag = "7days" -> 7 * 24

\* the reading is dated, and not before t minus the window
InWindow(item, tag, t) ==
    /\ item.originalDate # InvalidDate
    /\ item.originalDate[1] >= t - WindowHours(tag) * 3600000

\* f lists exactly the elements of d at the indices K, in the order of d
IsSelection(f, d, K) ==
    /\ Len(f) = Cardinality(K)
    /\ \A i \in K : f[Cardinality({j \in K : j <= i})] = d[i]

RECURSIVE IsSubseq(_, _)
\* a is b with some elements left out
IsSubseq(a, b) ==
    IF a = <<>> THEN TRUE
    ELSE IF b = <<>> THEN FALSE
    ELSE IF Head(a) = Head(b) THEN IsSubseq(Tail(a), Tail(b))
    ELSE IsSubseq(a, Tail(b))

Rank(tag) ==
    CASE tag = "1hour" -> 1 [] tag = "6hours" -> 2 [] tag = "24hours" -> 3
      [] tag = "7days" -> 4 [] tag = "all" -> 5

Digits == {"0", "1", "2", "3", "4", "5", "6", "7", "8", "9"}

DigitValue(c) == CHOOSE d \in 0..9 : DigitChar(d) = c

RECURSIVE ParseNat(_)
ParseNat(s) == IF s = <<>> THEN 0 ELSE 10 * ParseNat(SubSeq(s, 1, Len(s) - 1)) + DigitValue(Last(s))

Unsigned(s) == IF s # <<>> /\ Head(s) = "-" THEN Tail(s) ELSE s

\* s reads [-]d..d.d
IsOneDecimal(s) ==
    LET u == Unsigned(s)
    IN  /\ Len(u) >= 3
        /\ u[Len(u) - 1] = "."
        /\ \A i \in (1..Len(u)) \ {Len(u) - 1} : u[i] \in Digits

\* the number of hundredths a one-decimal string denotes
HundredthsOf(s) ==
    LET u == Unsigned(s)
        m == 100 * ParseNat(SubSeq(u, 1, Len(u) - 2)) + 10 * DigitValue(Last(u))
    IN  IF Head(s) = "-" THEN -m ELSE m

\* s is x rounded to one decimal place
RendersOneDecimal(s, x) ==
    /\ IsOneDecimal(s)
    /\ HundredthsOf(s) - x \in -5..5
    /\ (Head(s) = "-") <=> (x < 0)

-----------------------------------------------------------------------------
(* Properties *)

\* C1: once the filter has run under a window tag other than "all", the
\* filtered sequence is exactly the readings of the source, in source order,
\* that are dated and not older than the window before the instant of the run
\* (boundary included, readings dated after that instant included).
C1_WindowFilter ==
    (~filterPending /\ timeRange # "all") =>
        IsSelection(filteredData, data,
                    {i \in 1..Len(data) : InWindow(data[i], timeRange, filterNow)})

\* a reading exactly one window old is kept while another reading is dropped
C1_Witness ==
    /\ ~filterPending
    /\ timeRange = "1hour"
    /\ Len(filteredData) = 1
    /\ Len(data) = 2
    /\ filteredData[1].originalDate = <<filterNow - OneHour>>

\* C2: for one source sequence and one reference instant, the result of a
\* narrower window is contained, in order, in the result of every wider
\* window (1hour < 6hours < 24hours < 7days < all).
C2_Monotonic ==
    \A w1 \in TimeRanges : \A w2 \in TimeRanges :
        Rank(w1) <= Rank(w2) =>
            IsSubseq(FilterData(data, w1, now), FilterData(data, w2, now))

\* the one-hour result computed by the effect is non-empty and strictly
\* smaller than the six-hour result
C2_Witness ==
    /\ ~filterPending
    /\ timeRange = "1hour"
    /\ filteredData # <<>>
    /\ Len(filteredData) < Len(FilterData(data, "6hours", filterNow))

\* C3: under the tag "all" the filtered sequence is the source sequence.
C3_AllUnchanged ==
    (~filterPending /\ timeRange = "all") => filteredData = data

\* "all" keeps two readings that every bounded window drops, one of them
\* with an invalid date
C3_Witness ==
    /\ ~filterPending
    /\ timeRange = "all"
    /\ Len(filteredData) = 2
    /\ \E i \in 1..2 : data[i].originalDate = InvalidDate
    /\ FilterData(data, "7days", filterNow) = <<>>

\* C4: the summary is the placeholder for both fields exactly when the
\* filtered sequence is empty; otherwise its fields are the temperature and
\* the humidity of the last element of the filtered sequence, rounded to one
\* decimal place.
C4_LatestSummary ==
    LET s == GetLatestReadings
    IN  /\ (filteredData = <<>>) <=> (s.temp = <<"-", "-">> /\ s.humid = <<"-", "-">>)
        /\ (filteredData = <<>>) <=> (s.temp = <<"-", "-">> \/ s.humid = <<"-", "-">>)
        /\ filteredData # <<>> =>
              /\ RendersOneDecimal(s.temp, Last(filteredData).temperature)
              /\ RendersOneDecimal(s.humid, Last(filteredData).humidity)

\* the summary shows the last filtered reading, which is not the last reading
\* of the source and renders differently
C4_Witness ==
    /\ ~filterPending
    /\ filteredData # <<>>
    /\ Len(filteredData) < Len(data)
    /\ Last(filteredData) # Last(data)
    /\ ~RendersOneDecimal(GetLatestReadings.temp, Last(data).temperature)

-----------------------------------------------------------------------------
(* Properties of the fetch cycle *)

\* the step is the completion of a fetchData call with the outcome `kind`
Completes(kind) == inflight' # inflight /\ nextId' = nextId /\ lastResponse'.kind = kind

\* the step starts a fetchData call
StartsFetch == nextId' # nextId

\* the step is a firing of the poll timer
Ticks == interval # <<>> /\ interval' # <<>> /\ interval' # interval

\* C5: a fetch that succeeds with an empty array leaves error as it was (null
\* stays null) and sets loading to false; the sequence it stores is empty under
\* every window tag and, once the filter effect has run, the filtered sequence
\* is empty and the summary is the placeholder.
C5_EmptyFetchNoError ==
    [][ /\ (Completes("ok") /\ lastResponse'.json = <<>>) =>
              /\ error' = error
              /\ loading' = FALSE
              /\ \A tag \in TimeRanges : FilterData(data', tag, now') = <<>>
        /\ (lastResponse'.kind = "ok" /\ lastResponse'.json = <<>> /\ ~filterPending') =>
              /\ filteredData' = <<>>
              /\ GetLatestReadings' = Placeholder ]_vars

\* an empty response replaced a non-empty sequence without any failure, and
\* the filter effect has run
C5_Witness ==
    /\ lastResponse = [kind |-> "ok", json |-> <<>>]
    /\ phase = "mounted"
    /\ nextId = 3
    /\ inflight = {}
    /\ ~filterPending
    /\ error = Null
    /\ ~loading
    /\ GetLatestReadings = Placeholder

\* C6: whenever no run of the filter effect is due, filteredData is the
\* window filter of the current data under the current timeRange, computed
\* at the instant of the last run.
C6_FilterFollowsState ==
    ~filterPending =>
        /\ filteredData = FilterData(data, timeRange, filterNow)
        /\ filterNow <= now

\* after a fetch and a window selection the effect has run; the result
\* differs from the source and, time having passed, from a fresh filter
C6_Witness ==
    /\ phase = "mounted"
    /\ ~filterPending
    /\ lastResponse.kind = "ok"
    /\ timeRange = "1hour"
    /\ filteredData # <<>>
    /\ filteredData # data
    /\ FilterData(data, timeRange, now) # filteredData

C8_NoUpdateAfterTeardown ==
    [][phase = "unmounted" => UNCHANGED <<data, doorStatus, loading, error>>]_vars

\* r is the record the normalization of variant v makes of the JSON record item
IsNormalOf(r, item, v) ==
    /\ r.originalDate = (IF item.time = <<>> THEN <<>> ELSE item.time)
    /\ r.temperature = (IF item.temperature = <<>> THEN 0 ELSE item.temperature[1])
    /\ r.humidity = (IF item.humidity = <<>> THEN 0 ELSE item.humidity[1])
    /\ r.timestamp = FormatTime(r.originalDate)
    /\ IF v = "full"
       THEN /\ DOMAIN r = {"timestamp", "temperature", "humidity", "originalDate",
                           "doorStatus", "imageData"}
            /\ r.doorStatus = (IF item.doorStatus = <<>> THEN "closed" ELSE item.doorStatus[1])
            /\ r.imageData = (IF item.imageData = <<>> THEN [reading |-> 0]
                              ELSE item.imageData[1])
       ELSE DOMAIN r = {"timestamp", "temperature", "humidity", "originalDate"}

\* C9: after a successful fetch, and until the next one, data has the length
\* of that response and its i-th element is the normalization of the i-th
\* record of the response; nothing of the sequence held before remains.
C9_ReplacedWholesale ==
    lastResponse.kind = "ok" =>
        /\ Len(data) = Len(lastResponse.json)
        /\ \A i \in 1..Len(data) : IsNormalOf(data[i], lastResponse.json[i], variant)

\* a one-record response has replaced a sequence of two records (still shown
\* by the filtered sequence, the filter effect being due)
C9_Witness ==
    /\ lastResponse.kind = "ok"
    /\ phase = "mounted"
    /\ filterPending
    /\ Len(filteredData) = 2
    /\ Len(data) = 1
    /\ data[1] # filteredData[1]
    /\ data[1] # filteredData[2]

-----------------------------------------------------------------------------
(* Properties of the render and of the view controls *)

\* C11: in the chart region and in the table region, wherever it is rendered:
\* the spinner is shown while loading is true; otherwise the error message is
\* shown whenever error is not null, whatever data holds; the content is
\* shown exactly when loading is false and error is null.
C11_DisplayPrecedence ==
    \A r \in {ChartRegion, TableRegion} :
        r # "hidden" =>
            /\ loading => r = "spinner"
            /\ (~loading /\ error # Null) => r = "error"
            /\ r = "content" <=> (~loading /\ error = Null)

\* the chart shows the error message although readings are held and pass
\* the filter
C11_Witness ==
    /\ ChartRegion = "error"
    /\ ~loading
    /\ ~filterPending
    /\ data # <<>>
    /\ filteredData # <<>>

\* C12: no JSON record makes the normalization fail, whichever fields it
\* lacks; and after a successful fetch data has the length of the response,
\* its i-th element comes from the i-th record, with temperature 0 and
\* humidity 0 where the record has none and doorStatus 'closed' where the
\* record has none (polling variant).
C12_NoRecordRejected ==
    /\ \A json \in Responses : ~MapThrows(json)
    /\ lastResponse.kind = "ok" =>
          LET json == lastResponse.json
          IN  /\ Len(data) = Len(json)
              /\ \A i \in 1..Len(json) :
                    /\ data[i].originalDate = NewDate(json[i].time)
                    /\ json[i].temperature = Absent => data[i].temperature = 0
                    /\ json[i].temperature # Absent => data[i].temperature = json[i].temperature[1]
                    /\ json[i].humidity = Absent => data[i].humidity = 0
                    /\ json[i].humidity # Absent => data[i].humidity = json[i].humidity[1]
                    /\ variant = "full" =>
                          /\ json[i].doorStatus = Absent => data[i].doorStatus = "closed"
                          /\ json[i].doorStatus # Absent =>
                                data[i].doorStatus = json[i].doorStatus[1]

\* a response of two records, the first without a temperature, the second
\* without a door status and without a humidity, was stored and no error set
C12_Witness ==
    /\ lastResponse.kind = "ok"
    /\ error = Null
    /\ variant = "full"
    /\ Len(data) = 2
    /\ lastResponse.json[1].temperature = Absent
    /\ lastResponse.json[2].humidity = Absent
    /\ lastResponse.json[2].time = Absent
    /\ data[1].temperature = 0
    /\ data[1].doorStatus = "open"
    /\ data[2].humidity = 0

\* a step changes one of the view controls
ViewChange ==
    \/ darkMode' # darkMode
    \/ displayType' # displayType
    \/ currentView' # currentView
    \/ tableDataType' # tableDataType

\* C13: a step that changes darkMode, displayType, currentView or
\* tableDataType leaves data, filteredData, timeRange, doorStatus, loading and
\* error unchanged, starts no fetch and schedules no run of the filter; the
\* filter is scheduled only by a step that stores a response or changes
\* timeRange, and filteredData changes only in a run of the filter.
C13_ViewChangeFrame ==
    [][/\ ViewChange =>
             /\ UNCHANGED <<data, filteredData, timeRange, doorStatus, loading, error>>
             /\ UNCHANGED <<inflight, nextId, interval, filterPending, filterNow>>
       /\ (~filterPending /\ filterPending') => (Completes("ok") \/ timeRange' # timeRange)
       /\ filteredData' # filteredData => (filterPending /\ ~filterPending')
      ]_vars

\* every view control has been changed while readings are held and shown, a
\* fetch is in flight and no run of the filter is due
C13_Witness ==
    /\ variant = "full"
    /\ darkMode
    /\ displayType = "humidity"
    /\ currentView = "table"
    /\ tableDataType = "image"
    /\ inflight # {}
    /\ data # <<>>
    /\ filteredData = data
    /\ ~filterPending

\* C14: once error is set, every later step leaves it as it is and leaves
\* loading false, so the chart region and the table region, wherever they
\* are rendered, show the error message; a fetch that succeeds while error is
\* set still stores its response in data and schedules the filter.
C14_StickyError ==
    [][error # Null =>
          /\ ~loading
          /\ error' = error
          /\ ~loading'
          /\ ChartRegion' \in {"hidden", "error"}
          /\ TableRegion' \in {"hidden", "error"}
          /\ Completes("ok") =>
                /\ data' = FormattedData(lastResponse'.json, variant)
                /\ filterPending'
      ]_vars

\* after a failed fetch a poll succeeded and another window was selected: the
\* readings are held and pass the filter, and the chart shows the error
C14_Witness ==
    /\ error = ErrorMessage
    /\ lastResponse.kind = "ok"
    /\ timeRange = "7days"
    /\ data # <<>>
    /\ filteredData = data
    /\ ~filterPending
    /\ ChartRegion = "error"
    /\ TableRegion = "hidden"

-----------------------------------------------------------------------------
(* Overlapping fetches *)

\* C15: once no fetch is in flight, data holds the response of the fetch
\* that was started last among those that succeeded, whatever the order in
\* which the responses arrived.
C15_NoRegression ==
    (inflight = {} /\ newest.id > 0) => data = newest.data

-----------------------------------------------------------------------------
(* Door status and loading *)

\* the step stores a response of at least one record
StoresReadings == Completes("ok") /\ lastResponse'.json # <<>>

\* C16: doorStatus is 'closed' until a response is stored; in the polling
\* variant a fetch that succeeds with a non-empty response sets it to the
\* doorStatus of the last record of that response ('closed' when the record
\* has none), which is the last element of data and not of filteredData;
\* every other step (empty response, failed fetch, window selection, run of
\* the filter, ...) leaves it unchanged.
C16_DoorStatus ==
    /\ doorStatus = "closed"
    /\ [][/\ (variant = "full" /\ StoresReadings) =>
                LET last == Last(lastResponse'.json)
                IN  /\ doorStatus' = IF last.doorStatus = Absent THEN "closed"
                                     ELSE last.doorStatus[1]
                    /\ doorStatus' = Last(data').doorStatus
          /\ ~(variant = "full" /\ StoresReadings) => doorStatus' = doorStatus
         ]_vars

\* the door is shown open, as in the last of two readings held, while no
\* reading passes the window and the summary shows the placeholder
C16_Witness ==
    /\ variant = "full"
    /\ doorStatus = "open"
    /\ Len(data) = 2
    /\ data[1].doorStatus = "closed"
    /\ ~filterPending
    /\ filteredData = <<>>
    /\ GetLatestReadings = Placeholder

\* the step is the completion of a fetchData call
CompletesAny == Completes("ok") \/ Completes("fail")

\* C17: loading is true at construction and stays true in every step that
\* is not the completion of a fetch; the completion of a fetch, with a
\* response or a rejection, makes it false; once false it stays false, also
\* when a poll is started; and when every fetch that is started resolves or
\* rejects, loading is eventually false for ever.
C17_LoadingLifecycle ==
    /\ loading = TRUE
    /\ [][/\ (loading /\ ~CompletesAny) => loading'
          /\ CompletesAny => ~loading'
          /\ ~loading => ~loading'
          /\ StartsFetch => loading' = loading
         ]_vars
    /\ <>[](loading = FALSE)

\* the spinner is off while a poll started by the timer is in flight
C17_Witness ==
    /\ ~loading
    /\ phase = "mounted"
    /\ nextId > 2
    /\ inflight # {}

-----------------------------------------------------------------------------
(* A source sequence in time order *)

\* a <= b on two Dates: false when one of them is the Invalid Date
DateLeq(a, b) == a # InvalidDate /\ b # InvalidDate /\ a[1] <= b[1]

\* d is non-decreasing in originalDate
SortedByDate(d) ==
    \A i \in 1..(Len(d) - 1) : DateLeq(d[i].originalDate, d[i + 1].originalDate)

\* f is the last Len(f) elements of d
IsSuffix(f, d) ==
    /\ Len(f) <= Len(d)
    /\ \A k \in 1..Len(f) : f[k] = d[Len(d) - Len(f) + k]

\* C18: when data is non-decreasing in originalDate, then for every window
\* tag and every reference time the filtered sequence is the last k elements
\* of data for some k, and when it is not empty the summary is the one of a
\* reading of data that no reading of data is later than.
C18_SortedSuffix ==
    (~filterPending /\ SortedByDate(data)) =>
        /\ IsSuffix(filteredData, data)
        /\ filteredData # <<>> =>
              \E i \in 1..Len(data) :
                  /\ \A j \in 1..Len(data) :
                        j = i \/ DateLeq(data[j].originalDate, data[i].originalDate)
                  /\ GetLatestReadings = [temp  |-> ToFixed1(data[i].temperature),
                                          humid |-> ToFixed1(data[i].humidity)]

\* of two readings in time order the window keeps the later one only
C18_Witness ==
    /\ ~filterPending
    /\ Len(data) = 2
    /\ SortedByDate(data)
    /\ data[1].originalDate # data[2].originalDate
    /\ filteredData = <<data[2]>>
    /\ GetLatestReadings.temp = ToFixed1(data[2].temperature)

====
